---- MODULE Spec2Model ----
(***************************************************************************)
(* A model of web/main.py: the nflverse playoff-stats pipeline.            *)
(*   download_nflverse_data -> filter_and_prepare_data ->                  *)
(*   add_fantasy_points -> connect_to_supabase -> save_to_supabase ->      *)
(*   display_top_players, orchestrated by main.                            *)
(* Each stage is modelled from its code; the remote file host, the local   *)
(* file system and the PostgREST store are the environment, whose answers  *)
(* are drawn from small sets.                                              *)
(***************************************************************************)
EXTENDS Integers, Sequences, FiniteSets, TLC

VARIABLES
    files,        \* local file system: file name -> bytes, or NoFile
    last,         \* the most recent download_nflverse_data call and its outcome
    raw,          \* the DataFrame handed to filter_and_prepare_data
    df,           \* the DataFrame after the stage that ran last (or the error it raised)
    stage,        \* position in the filter -> score pipeline
    row,          \* the row handed to calculate_fantasy_points
    points,       \* what calculate_fantasy_points returned for row
    table,        \* rows of the store's player_stats_<season> table
    records,      \* save_to_supabase: df.to_dict('records'), stamped
    i,            \* save_to_supabase: loop variable of the batch loop
    savePc,       \* save_to_supabase: position in the function
    clearStatus,  \* save_to_supabase: what the DELETE request answered
    posts,        \* save_to_supabase: the POST requests issued, in order
    now,          \* datetime.now() of the current run (a run counter)
    pc,           \* main: the step it is at
    raised,       \* main: the error that left main (NoError if none)
    stageErr,     \* main: the error the failing stage raised
    printed       \* main: console lines that matter (the success banner, the report)

vars == <<files, last, raw, df, stage, row, points, table, records, i, savePc,
          clearStatus, posts, now, pc, raised, stageErr, printed>>

loaderVars  == <<files, last>>
frameVars   == <<raw, df, stage>>
scorerVars  == <<row, points>>
saveVars    == <<table, records, i, savePc, clearStatus, posts, now>>
mainVars    == <<pc, raised, stageErr, printed>>

(***************************************************************************)
(* Bounds of the model.                                                    *)
(***************************************************************************)
MaxVer     == 3     \* versions 0..MaxVer of the file a remote URL serves
MaxRows    == 2     \* rows of a raw table
MaxStat    == 2     \* a statistic is in 0..MaxStat (plus the two worked examples)
MaxBatches == 2     \* record counts reach MaxBatches * batch_size + 1
MaxRuns    == 2     \* consecutive runs of save_to_supabase against one table

(***************************************************************************)
(* download_nflverse_data                                                  *)
(***************************************************************************)
Seasons     == {2023, 2024}
SeasonTypes == {"REG", "POST"}

\* str.lower() on the two season types
Lower(season_type) == IF season_type = "POST" THEN "post" ELSE "reg"

\* line 18: file_name = f"stats_player_post_{season}.csv"
\* A name is the tuple of the parts the f-string joins.
file_name(season, season_type) == <<"stats_player", "post", season, "csv">>

\* line 22: the last path segment of url,
\* f"stats_player_{season_type.lower()}_{season}.csv"
url(season, season_type) == <<"stats_player", Lower(season_type), season, "csv">>

FileNames == {file_name(s, t) : s \in Seasons, t \in SeasonTypes}
Urls      == {url(s, t) : s \in Seasons, t \in SeasonTypes}

NoFile == [kind |-> "nofile"]

\* The bytes a URL can serve: the data of that URL's period in one of its
\* versions, with either line ending.
Blobs == [kind : {"bytes"}, of : Urls, ver : 0..MaxVer, crlf : BOOLEAN]

\* pd.read_csv: the table the bytes hold; line endings do not survive parsing.
read_csv(bytes) == [kind |-> "df", of |-> bytes.of, ver |-> bytes.ver]

\* requests.get(url, timeout=10) followed by raise_for_status(): the body of a
\* success response, or the RequestException raised.
FetchFailures == {"ConnectionError", "HTTPError", "Timeout"}
Responses(u) ==
    {[ok |-> TRUE, content |-> b] : b \in {x \in Blobs : x.of = u}}
    \cup {[ok |-> FALSE, exc |-> e] : e \in FetchFailures}

FileNotFoundError == [kind |-> "raise", exc |-> "FileNotFoundError"]

\* A plausible slip: the fallback reads nothing and always gives up.
download_no_fallback(season, season_type, response, fs) ==
    LET name == file_name(season, season_type) IN
    IF response.ok
    THEN LET fs2 == [fs EXCEPT ![name] = response.content]
         IN  [ret |-> read_csv(fs2[name]), fs |-> fs2]
    ELSE [ret |-> FileNotFoundError, fs |-> fs]

\* lines 26-51: what the call returns (or raises) and the file system it leaves.
download_nflverse_data(season, season_type, response, fs) ==
    LET name == file_name(season, season_type) IN
    IF response.ok
    THEN \* lines 31-37: write response.content, read it back
         LET fs2 == [fs EXCEPT ![name] = response.content]
         IN  [ret |-> read_csv(fs2[name]), fs |-> fs2]
    ELSE \* lines 39-51
         IF fs[name] # NoFile
         THEN [ret |-> read_csv(fs[name]), fs |-> fs]
         ELSE [ret |-> FileNotFoundError, fs |-> fs]

NoCall == [kind |-> "nocall"]

LoaderInit ==
    /\ files = [n \in FileNames |-> NoFile]
    /\ last = NoCall

\* One call of download_nflverse_data(season, season_type).
Download(season, season_type, response) ==
    LET r == download_nflverse_data(season, season_type, response, files) IN
    /\ files' = r.fs
    /\ last' = [kind |-> "call", season |-> season, season_type |-> season_type,
                response |-> response, pre |-> files, ret |-> r.ret]

LoaderIdle == files = [n \in FileNames |-> NoFile] /\ last = NoCall

(***************************************************************************)
(* DataFrames                                                              *)
(***************************************************************************)
\* A cell: a number, NaN (a missing value) or a string.
Num(n) == [k |-> "num", n |-> n, s |-> ""]
NaN    == [k |-> "nan", n |-> 0, s |-> ""]
Str(s) == [k |-> "str", n |-> 0, s |-> s]

\* The dtype pd.read_csv gives a column: int64 when every cell is an integer,
\* float64 when cells are numbers or missing, object when a cell is a string
\* (and for a table without rows).
InferDType(rows, col) ==
    IF rows = <<>> \/ \E j \in 1..Len(rows) : rows[j][col].k = "str" THEN "object"
    ELSE IF \E j \in 1..Len(rows) : rows[j][col].k = "nan" THEN "float64"
    ELSE "int64"

\* A DataFrame: its columns, the dtype of each, and its rows in order.
Frame(cols, rows) ==
    [kind |-> "df", cols |-> cols,
     dtype |-> [c \in cols |-> InferDType(rows, c)], rows |-> rows]

KeyError(key) == [kind |-> "raise", exc |-> "KeyError", key |-> key]
TypeError     == [kind |-> "raise", exc |-> "TypeError", key |-> ""]
ValueError    == [kind |-> "raise", exc |-> "ValueError", key |-> ""]

(***************************************************************************)
(* filter_and_prepare_data                                                 *)
(***************************************************************************)
\* lines 64-76
identity_cols ==
    {"player_name", "player_display_name", "position", "position_group", "recent_team"}

stat_cols ==
    {"passing_yards", "passing_tds", "passing_interceptions", "sacks_suffered",
     "sack_fumbles_lost", "passing_2pt_conversions",
     "rushing_yards", "rushing_tds", "rushing_fumbles_lost", "rushing_2pt_conversions",
     "receptions", "receiving_yards", "receiving_tds", "receiving_fumbles_lost",
     "receiving_2pt_conversions", "special_teams_tds",
     "def_tackles_solo", "def_tackle_assists", "def_tackles_for_loss", "def_fumbles_forced",
     "def_sacks", "def_interceptions", "def_pass_defended", "def_tds", "def_fumbles",
     "def_safeties", "fumble_recovery_opp", "fumble_recovery_tds",
     "punt_return_yards", "kickoff_return_yards",
     "fg_made", "fg_att", "fg_made_distance", "pat_made", "pat_att"}

needed_cols == identity_cols \cup stat_cols

\* line 83
position_groups == {"QB", "RB", "WR", "TE", "DL", "LB", "DB", "ST"}

\* Series.isin(position_groups) on one cell: NaN and numbers are not members.
isin(cell, values) == cell.k = "str" /\ cell.s \in values

\* DataFrame.fillna(0) on one cell
fillna0(cell) == IF cell.k = "nan" THEN Num(0) ELSE cell

\* select_dtypes(include=['float64', 'int64']).columns
numeric_columns(frame) == {c \in frame.cols : frame.dtype[c] \in {"float64", "int64"}}

\* A plausible slip: rows are not restricted to position_groups.
filter_and_prepare_unfiltered(frame) ==
    LET available_cols == needed_cols \cap frame.cols IN
    IF "position_group" \notin available_cols THEN KeyError("position_group")
    ELSE LET numeric ==
                 {c \in available_cols : frame.dtype[c] \in {"float64", "int64"}}
         IN  [kind |-> "df", cols |-> available_cols,
              dtype |-> [c \in available_cols |-> frame.dtype[c]],
              rows |-> [j \in 1..Len(frame.rows) |->
                          [c \in available_cols |->
                              IF c \in numeric THEN fillna0(frame.rows[j][c])
                              ELSE frame.rows[j][c]]]]

\* lines 78-92: the returned frame, or the KeyError line 84 raises when the
\* input has no position_group column.
filter_and_prepare_data(frame) ==
    LET \* lines 79-80: the listed columns the input has; the rest are dropped
        available_cols == needed_cols \cap frame.cols
    IN
    IF "position_group" \notin available_cols THEN KeyError("position_group")
    ELSE LET \* line 84: row selection keeps each column's dtype
             keep(r)  == isin(r["position_group"], position_groups)
             kept     == SelectSeq(frame.rows, keep)
             filtered == [kind |-> "df", cols |-> available_cols,
                          dtype |-> [c \in available_cols |-> frame.dtype[c]],
                          rows |-> [j \in 1..Len(kept) |->
                                      [c \in available_cols |-> kept[j][c]]]]
             \* lines 87-88
             numeric  == numeric_columns(filtered)
         IN  [filtered EXCEPT !.rows =
                 [j \in 1..Len(kept) |->
                    [c \in available_cols |->
                        IF c \in numeric THEN fillna0(filtered.rows[j][c])
                        ELSE filtered.rows[j][c]]]]

(***************************************************************************)
(* calculate_off_points, calculate_def_points, calculate_fantasy_points    *)
(*                                                                         *)
(* A score is kept in hundredths of a point, so that /25, /10, /20 and     *)
(* * 0.5 of whole-number statistics stay exact integers.                   *)
(***************************************************************************)
T(sign, col, op, k) == [sign |-> sign, col |-> col, op |-> op, k |-> k]

\* lines 100-123, one entry per statement, in order
off_terms ==
    << T( 1, "passing_yards", "div", 25),
       T( 1, "passing_tds", "mul", 4),
       T(-1, "passing_interceptions", "mul", 2),
       T(-1, "sacks_suffered", "half", 1),
       T(-1, "sack_fumbles_lost", "mul", 2),
       T( 1, "passing_2pt_conversions", "mul", 2),
       T( 1, "rushing_yards", "div", 10),
       T( 1, "rushing_tds", "mul", 6),
       T(-1, "rushing_fumbles_lost", "mul", 2),
       T( 1, "rushing_2pt_conversions", "mul", 2),
       T( 1, "receptions", "half", 1),
       T( 1, "receiving_yards", "div", 10),
       T( 1, "receiving_tds", "mul", 6),
       T(-1, "receiving_fumbles_lost", "mul", 2),
       T( 1, "receiving_2pt_conversions", "mul", 2),
       T( 1, "special_teams_tds", "mul", 15),
       T( 1, "punt_return_yards", "div", 20),
       T( 1, "kickoff_return_yards", "div", 20) >>

\* lines 132-142
def_terms ==
    << T(1, "def_tackles_solo", "mul", 1),
       T(1, "def_tackle_assists", "half", 1),
       T(1, "def_tackles_for_loss", "mul", 2),
       T(1, "def_fumbles_forced", "mul", 5),
       T(1, "def_sacks", "mul", 4),
       T(1, "def_interceptions", "mul", 7),
       T(1, "def_pass_defended", "mul", 3),
       T(1, "def_tds", "mul", 6),
       T(1, "def_safeties", "mul", 2),
       T(1, "fumble_recovery_opp", "mul", 3),
       T(1, "fumble_recovery_tds", "mul", 6) >>

\* row[col] / k, row[col] * k or row[col] * 0.5, in hundredths
Hundredths(t, v) ==
    CASE t.op = "div"  -> (v * 100) \div t.k
      [] t.op = "mul"  -> v * t.k * 100
      [] t.op = "half" -> v * 50

\* The statements "total += ..." / "total -= ..." run in order: a column the row
\* lacks raises KeyError, a string operand raises TypeError, and a missing
\* operand turns the total into NaN.
RECURSIVE Accumulate(_, _, _)
Accumulate(r, terms, total) ==
    IF terms = <<>> THEN total
    ELSE LET t == Head(terms) IN
         IF t.col \notin DOMAIN r THEN KeyError(t.col)
         ELSE IF r[t.col].k = "str" THEN TypeError
         ELSE Accumulate(r, Tail(terms),
                  IF total.k = "nan" \/ r[t.col].k = "nan" THEN NaN
                  ELSE Num(total.n + t.sign * Hundredths(t, r[t.col].n)))

\* lines 95-125
calculate_off_points(r) == Accumulate(r, off_terms, Num(0))

\* lines 128-144
calculate_def_points(r) == Accumulate(r, def_terms, Num(0))

\* A plausible slip: the special-teams group is scored like an offensive one.
calculate_fantasy_points_st(r) ==
    IF "position_group" \notin DOMAIN r THEN KeyError("position_group")
    ELSE IF isin(r["position_group"], {"QB", "RB", "WR", "TE", "ST"})
    THEN calculate_off_points(r)
    ELSE IF isin(r["position_group"], {"DL", "LB", "DB"})
    THEN calculate_def_points(r)
    ELSE Num(0)

\* lines 147-154
calculate_fantasy_points(r) ==
    IF "position_group" \notin DOMAIN r THEN KeyError("position_group")
    ELSE IF isin(r["position_group"], {"QB", "RB", "WR", "TE"})
    THEN calculate_off_points(r)
    ELSE IF isin(r["position_group"], {"DL", "LB", "DB"})
    THEN calculate_def_points(r)
    ELSE Num(0)

\* What DataFrame.apply(f, axis=1) on a frame without rows leads to at line 168
\* depends on the pandas build: the assignment of its (frame-shaped) result to
\* one column either is accepted or raises ValueError.
EmptyApply == {"accepted", "ValueError"}

\* lines 157-171: the frame with its fantasy_points column, or the error the
\* first failing row raised.
add_fantasy_points(frame, emptyApply) ==
    IF frame.rows = <<>>
    THEN IF emptyApply = "ValueError" THEN ValueError
         ELSE [kind |-> "df", cols |-> frame.cols \cup {"fantasy_points"},
               dtype |-> [c \in frame.cols \cup {"fantasy_points"} |->
                            IF c \in frame.cols THEN frame.dtype[c] ELSE "object"],
               rows |-> <<>>]
    ELSE LET results == [j \in 1..Len(frame.rows) |->
                            calculate_fantasy_points(frame.rows[j])]
             failed  == {j \in 1..Len(results) : "kind" \in DOMAIN results[j]}
         IN  IF failed # {}
             THEN results[CHOOSE j \in failed : \A m \in failed : j <= m]
             ELSE [kind |-> "df", cols |-> frame.cols \cup {"fantasy_points"},
                   dtype |-> [c \in frame.cols \cup {"fantasy_points"} |->
                                IF c \in frame.cols THEN frame.dtype[c]
                                ELSE "float64"],
                   rows |-> [j \in 1..Len(frame.rows) |->
                               [c \in frame.cols \cup {"fantasy_points"} |->
                                   IF c \in frame.cols THEN frame.rows[j][c]
                                   ELSE results[j]]]]

(***************************************************************************)
(* Raw tables: the inputs of filter_and_prepare_data.                      *)
(***************************************************************************)
\* One listed column may be missing from the raw table ("" for none) ...
AbsentChoices ==
    {"", "position_group", "passing_yards", "def_sacks", "fg_made"}
\* ... and one statistic varies from row to row; the others are 0.
FocusCols  == {"passing_yards", "def_sacks", "fg_made"}
FocusCells == {Num(1), NaN, Str("x")}
RawLabels  == {Str("QB"), Str("DL"), Str("ST"), Str("OL"), NaN}

\* The raw file has columns the pipeline does not list, such as season.
RawCols(absent) == (needed_cols \cup {"season"}) \ {absent}

RawRow(cols, label, focus, cell) ==
    [c \in cols |->
        IF c = "position_group" THEN label
        ELSE IF c = focus THEN cell
        ELSE IF c \in identity_cols THEN Str("p")
        ELSE IF c = "season" THEN Num(2024)
        ELSE Num(0)]

\* A raw table: the (label, focus cell) pairs of its rows, in order.
RawTable(absent, focus, sp) ==
    Frame(RawCols(absent),
          [j \in 1..Len(sp) |-> RawRow(RawCols(absent), sp[j][1], focus, sp[j][2])])

NoFrame == [kind |-> "none"]

FrameIdle == raw = NoFrame /\ df = NoFrame /\ stage = "idle"

FrameInit ==
    /\ \E absent \in AbsentChoices, focus \in FocusCols :
          \E n \in 0..MaxRows :
             \E sp \in [1..n -> RawLabels \X FocusCells] :
                raw = RawTable(absent, focus, sp)
    /\ df = NoFrame
    /\ stage = "raw"

\* main, line 295: df = filter_and_prepare_data(df)
FilterAndPrepare ==
    /\ stage = "raw"
    /\ df' = filter_and_prepare_data(raw)
    /\ stage' = "filtered"
    /\ UNCHANGED raw

\* main, line 301: df = add_fantasy_points(df), reached when line 295 returned
AddFantasyPoints ==
    /\ stage = "filtered"
    /\ df.kind = "df"
    /\ \E e \in EmptyApply : df' = add_fantasy_points(df, e)
    /\ stage' = "scored"
    /\ UNCHANGED raw

(***************************************************************************)
(* Rows handed to calculate_fantasy_points directly.                       *)
(***************************************************************************)
ScorerLabels == {Str(g) : g \in position_groups} \cup {Str("OL"), NaN}

\* A full row: every listed column, two statistics chosen freely, the rest 0.
StatRow(label, c1, v1, c2, v2) ==
    [c \in needed_cols |->
        IF c = "position_group" THEN label
        ELSE IF c \in identity_cols THEN Str("p")
        ELSE IF c = c1 THEN Num(v1)
        ELSE IF c = c2 THEN Num(v2)
        ELSE Num(0)]

\* The two worked examples of the scoring rules.
ExampleOff ==
    [StatRow(Str("QB"), "passing_yards", 250, "passing_tds", 2)
        EXCEPT !["passing_interceptions"] = Num(1)]
ExampleDef == StatRow(Str("LB"), "def_sacks", 2, "def_interceptions", 1)

NotScored == [kind |-> "none"]

ScorerIdle == row = NotScored /\ points = NotScored

ScorerInit ==
    /\ \/ \E l \in ScorerLabels, c1 \in stat_cols, c2 \in stat_cols :
             \E v1 \in 0..MaxStat, v2 \in 0..MaxStat :
                row = StatRow(l, c1, v1, c2, v2)
       \/ row \in {ExampleOff, ExampleDef}
    /\ points = NotScored

\* add_fantasy_points, line 168: apply calls calculate_fantasy_points(row)
Score ==
    /\ points = NotScored
    /\ points' = calculate_fantasy_points(row)
    /\ UNCHANGED row

(***************************************************************************)
(* The store: one PostgREST table, player_stats_<season>.                  *)
(***************************************************************************)
\* An answer to a request: an HTTP response with its status code, or an
\* exception raised by requests (no response was read).  applied tells whether
\* the store carried the request out: it did for a 2xx response, it did not for
\* every other status, and a transport error leaves either possible.
Response(status) ==
    [kind |-> "response", status |-> status,
     applied |-> (status >= 200 /\ status <= 299)]
TransportError(applied) ==
    [kind |-> "exception", status |-> 0, applied |-> applied]

DeleteAnswers ==
    {Response(st) : st \in {200, 204, 404}} \cup {TransportError(b) : b \in BOOLEAN}
PostAnswers ==
    {Response(st) : st \in {200, 201, 204, 500}}
    \cup {TransportError(b) : b \in BOOLEAN}

\* DELETE ...?id=gt.0 : row ids are positive, so every row goes.
StoreDelete(rows, answer) == IF answer.applied THEN <<>> ELSE rows
\* POST with a JSON array: the rows are appended in order.
StoreInsert(rows, batch, answer) == IF answer.applied THEN rows \o batch ELSE rows

(***************************************************************************)
(* save_to_supabase                                                        *)
(***************************************************************************)
\* line 230
batch_size == 500

Min(a, b) == IF a <= b THEN a ELSE b

\* lines 213-216: every record carries the run's timestamp
Stamp(recs, t) == [j \in 1..Len(recs) |-> <<t, recs[j]>>]

\* line 222: the statuses for which Clear reports success
clear_ok(answer) == answer.kind = "response" /\ answer.status \in {200, 204}

\* A plausible slip: every 2xx status is taken as a written batch.
insert_ok_2xx(answer) ==
    answer.kind = "response" /\ answer.status >= 200 /\ answer.status <= 299

\* line 239: the statuses for which a batch counts as written
insert_ok(answer) == answer.kind = "response" /\ answer.status \in {200, 201}

\* A plausible slip: the slice is one record short.
batch_of_short(recs, start) ==
    SubSeq(recs, start + 1, Min(start + batch_size, Len(recs)) - 1)

\* line 234: records[i:i + batch_size]
batch_of(recs, start) == SubSeq(recs, start + 1, Min(start + batch_size, Len(recs)))

\* A plausible slip: a failed batch is logged and the loop goes on.
after_insert_continue(answer, start) == [pc |-> "insert", i |-> start + batch_size]

\* A plausible slip: a failed batch is sent again.
after_insert_retry(answer, start) ==
    IF insert_ok(answer)
    THEN [pc |-> "insert", i |-> start + batch_size]
    ELSE [pc |-> "insert", i |-> start]

\* lines 239-247: where the function is after the answer to a batch
after_insert(answer, start) ==
    IF insert_ok(answer)
    THEN [pc |-> "insert", i |-> start + batch_size]
    ELSE [pc |-> "raised", i |-> start]

\* A plausible slip: a failed Clear aborts the function.
after_clear_fatal(answer) == IF clear_ok(answer) THEN "insert" ELSE "raised"

\* lines 219-227: line 223 and lines 225, 227 only print; the function goes on
\* to the batch loop either way
after_clear(answer) == IF clear_ok(answer) THEN "insert" ELSE "insert"

NoAnswer == [kind |-> "none", status |-> 0, applied |-> FALSE]

SaveIdle ==
    /\ table = <<>> /\ records = <<>> /\ i = 0 /\ savePc = "idle"
    /\ clearStatus = NoAnswer /\ posts = <<>> /\ now = 0

\* lines 210-216: the call, up to the Clear request
SaveBegin(recs) ==
    /\ savePc \in {"idle", "returned", "raised"}
    /\ now < MaxRuns
    /\ now' = now + 1
    /\ records' = Stamp(recs, now + 1)
    /\ i' = 0
    /\ posts' = <<>>
    /\ clearStatus' = NoAnswer
    /\ savePc' = "clear"
    /\ UNCHANGED table

\* lines 219-227: the DELETE request and its answer
Clear(answer) ==
    /\ savePc = "clear"
    /\ table' = StoreDelete(table, answer)
    /\ clearStatus' = answer
    /\ savePc' = after_clear(answer)
    /\ UNCHANGED <<records, i, posts, now>>

\* lines 233-247: one iteration of the batch loop
InsertBatch(answer) ==
    /\ savePc = "insert"
    /\ i < Len(records)
    /\ LET batch == batch_of(records, i)
           next  == after_insert(answer, i)
       IN  /\ posts' = Append(posts, [start |-> i, batch |-> batch, answer |-> answer])
           /\ table' = StoreInsert(table, batch, answer)
           /\ savePc' = next.pc
           /\ i' = next.i
    /\ UNCHANGED <<records, clearStatus, now>>

\* line 233: range(0, len(records), batch_size) is exhausted
LoopExit ==
    /\ savePc = "insert"
    /\ i >= Len(records)
    /\ savePc' = "returned"
    /\ UNCHANGED <<table, records, i, clearStatus, posts, now>>

\* What leaves save_to_supabase when a batch fails: the Exception of line 244,
\* or the transport error requests raised, re-raised at line 247.
save_error(answer) ==
    IF answer.kind = "response"
    THEN [kind |-> "raise", exc |-> "Exception", key |-> "Failed to insert batch"]
    ELSE [kind |-> "raise", exc |-> "ConnectionError", key |-> ""]

\* Record counts around the batch boundaries.
RecordCounts ==
    {0, 1, batch_size, batch_size + 1, MaxBatches * batch_size + 1}

PersistStart == \E n \in RecordCounts : SaveBegin([j \in 1..n |-> j])

(***************************************************************************)
(* display_top_players                                                     *)
(***************************************************************************)
\* The answers to the report query: a 200 response whose body is the JSON list
\* of the table's top rows, a 200 response whose body is not JSON, an error
\* status, or a transport error.
ReportAnswers ==
    {[answer |-> Response(200), body |-> b] : b \in {"json", "garbage"}}
    \cup {[answer |-> Response(500), body |-> "json"],
          [answer |-> TransportError(FALSE), body |-> ""]}

\* lines 261-277: the line the function prints; every exception is caught at
\* line 276, so the function always returns.
display_top_players(report, rows) ==
    IF report.answer.kind = "response"
    THEN IF report.answer.status = 200
         THEN IF report.body # "json" THEN "Error fetching top players"
              ELSE IF rows # <<>> THEN "Top players" ELSE "No data found"
         ELSE "Error fetching top players"
    ELSE "Error fetching top players"

(***************************************************************************)
(* main                                                                    *)
(***************************************************************************)
NoError == [kind |-> "none"]

\* lines 287-288
season      == 2024
season_type == "POST"

\* The table each version of the remote file parses to: a table the pipeline
\* accepts, one without position_group, one without passing_yards, and one
\* whose rows all fall outside position_groups.
TableOf(dataset) ==
    LET v == dataset.ver % 4 IN
    CASE v = 0 -> Frame(RawCols(""),
                    << RawRow(RawCols(""), Str("QB"), "passing_yards", Num(1)),
                       RawRow(RawCols(""), Str("DL"), "def_sacks", NaN) >>)
      [] v = 1 -> Frame(RawCols("position_group"),
                    << RawRow(RawCols("position_group"), Str("QB"), "fg_made", Num(1)) >>)
      [] v = 2 -> Frame(RawCols("passing_yards"),
                    << RawRow(RawCols("passing_yards"), Str("QB"), "def_sacks", Num(1)) >>)
      [] v = 3 -> Frame(RawCols(""),
                    << RawRow(RawCols(""), Str("OL"), "fg_made", Num(1)) >>)

\* lines 325-327: print the error, then raise("\n" + "=" * 80).  Raising a str
\* makes Python raise TypeError (exceptions must derive from BaseException); e
\* is not re-raised.  The bare raise of line 333 is not reached.
main_except(e) == TypeError

MainIdle ==
    pc = "idle" /\ raised = NoError /\ stageErr = NoError /\ printed = <<>>

\* line 289
MainDownload ==
    /\ pc = "download"
    /\ \E response \in Responses(url(season, season_type)) :
          Download(season, season_type, response)
    /\ IF last'.ret.kind = "raise"
       THEN /\ pc' = "except" /\ stageErr' = last'.ret
            /\ UNCHANGED <<raw, stage>>
       ELSE /\ pc' = "filter" /\ raw' = TableOf(last'.ret) /\ stage' = "raw"
            /\ UNCHANGED stageErr
    /\ UNCHANGED <<df, scorerVars, saveVars, raised, printed>>

\* line 295
MainFilter ==
    /\ pc = "filter"
    /\ FilterAndPrepare
    /\ IF df'.kind = "raise"
       THEN pc' = "except" /\ stageErr' = df'
       ELSE pc' = "score" /\ UNCHANGED stageErr
    /\ UNCHANGED <<loaderVars, scorerVars, saveVars, raised, printed>>

\* line 301
MainScore ==
    /\ pc = "score"
    /\ AddFantasyPoints
    /\ IF df'.kind = "raise"
       THEN pc' = "except" /\ stageErr' = df'
       ELSE pc' = "connect" /\ UNCHANGED stageErr
    /\ UNCHANGED <<loaderVars, scorerVars, saveVars, raised, printed>>

\* line 307: connect_to_supabase builds the URL and the headers; it cannot fail
MainConnect ==
    /\ pc = "connect"
    /\ pc' = "save"
    /\ UNCHANGED <<loaderVars, frameVars, scorerVars, saveVars, raised, stageErr, printed>>

\* line 313: the call of save_to_supabase
MainSave ==
    /\ pc = "save"
    /\ SaveBegin(df.rows)
    /\ pc' = "saving"
    /\ UNCHANGED <<loaderVars, frameVars, scorerVars, raised, stageErr, printed>>

\* save_to_supabase at work inside main
MainSaving ==
    /\ pc = "saving"
    /\ \/ \E answer \in DeleteAnswers : Clear(answer)
       \/ \E answer \in PostAnswers : InsertBatch(answer)
       \/ LoopExit
    /\ UNCHANGED <<loaderVars, frameVars, scorerVars, mainVars>>

\* line 313 returns
MainSaveReturn ==
    /\ pc = "saving"
    /\ savePc = "returned"
    /\ pc' = "display"
    /\ UNCHANGED <<loaderVars, frameVars, scorerVars, saveVars, raised, stageErr, printed>>

\* line 313 raises
MainSaveRaise ==
    /\ pc = "saving"
    /\ savePc = "raised"
    /\ pc' = "except"
    /\ stageErr' = save_error(posts[Len(posts)].answer)
    /\ UNCHANGED <<loaderVars, frameVars, scorerVars, saveVars, raised, printed>>

\* line 319
MainDisplay ==
    /\ pc = "display"
    /\ \E report \in ReportAnswers :
          printed' = Append(printed, display_top_players(report, table))
    /\ pc' = "banner"
    /\ UNCHANGED <<loaderVars, frameVars, scorerVars, saveVars, raised, stageErr>>

\* lines 321-323
MainBanner ==
    /\ pc = "banner"
    /\ printed' = Append(printed, "Process completed successfully!")
    /\ pc' = "returned"
    /\ UNCHANGED <<loaderVars, frameVars, scorerVars, saveVars, raised, stageErr>>

\* lines 325-327
MainExcept ==
    /\ pc = "except"
    /\ printed' = Append(printed, "Error occurred")
    /\ raised' = main_except(stageErr)
    /\ pc' = "raised"
    /\ UNCHANGED <<loaderVars, frameVars, scorerVars, saveVars, stageErr>>

(***************************************************************************)
(* Specifications                                                          *)
(***************************************************************************)
\* Calls of download_nflverse_data, in any order, against one file system.
InitLoader == LoaderInit /\ FrameIdle /\ ScorerIdle /\ SaveIdle /\ MainIdle
LoaderCall ==
    /\ \E s \in Seasons, t \in SeasonTypes :
          \E response \in Responses(url(s, t)) : Download(s, t, response)
    /\ UNCHANGED <<frameVars, scorerVars, saveVars, mainVars>>
NextLoader == LoaderCall
SpecLoader == InitLoader /\ [][NextLoader]_vars

\* filter_and_prepare_data, then add_fantasy_points, on every raw table.
InitFrame == LoaderIdle /\ FrameInit /\ ScorerIdle /\ SaveIdle /\ MainIdle
NextFrame ==
    \/ FilterAndPrepare /\ UNCHANGED <<loaderVars, scorerVars, saveVars, mainVars>>
    \/ AddFantasyPoints /\ UNCHANGED <<loaderVars, scorerVars, saveVars, mainVars>>
SpecFrame == InitFrame /\ [][NextFrame]_vars

\* calculate_fantasy_points on every row.
InitScorer == LoaderIdle /\ FrameIdle /\ ScorerInit /\ SaveIdle /\ MainIdle
NextScorer == Score /\ UNCHANGED <<loaderVars, frameVars, saveVars, mainVars>>
SpecScorer == InitScorer /\ [][NextScorer]_vars

\* Consecutive runs of save_to_supabase against one table.
InitPersist == LoaderIdle /\ FrameIdle /\ ScorerIdle /\ SaveIdle /\ MainIdle
NextPersist ==
    \/ PersistStart /\ UNCHANGED <<loaderVars, frameVars, scorerVars, mainVars>>
    \/ \E answer \in DeleteAnswers :
          Clear(answer) /\ UNCHANGED <<loaderVars, frameVars, scorerVars, mainVars>>
    \/ \E answer \in PostAnswers :
          InsertBatch(answer) /\ UNCHANGED <<loaderVars, frameVars, scorerVars, mainVars>>
    \/ LoopExit /\ UNCHANGED <<loaderVars, frameVars, scorerVars, mainVars>>
SpecPersist == InitPersist /\ [][NextPersist]_vars

\* One run of main.  The cache file may be left from an earlier run, and the
\* table may hold an earlier run's rows.
StaleRow == <<0, "stale">>
InitMain ==
    /\ \E cached \in {NoFile} \cup {b \in Blobs : b.of = url(season, season_type) /\ ~b.crlf} :
          files = [n \in FileNames |->
                      IF n = file_name(season, season_type) THEN cached ELSE NoFile]
    /\ last = NoCall
    /\ FrameIdle /\ ScorerIdle
    /\ table \in {<<>>, <<StaleRow>>}
    /\ records = <<>> /\ i = 0 /\ savePc = "idle"
    /\ clearStatus = NoAnswer /\ posts = <<>> /\ now = 0
    /\ pc = "download" /\ raised = NoError /\ stageErr = NoError /\ printed = <<>>
NextMain ==
    \/ MainDownload
    \/ MainFilter
    \/ MainScore
    \/ MainConnect
    \/ MainSave
    \/ MainSaving
    \/ MainSaveReturn
    \/ MainSaveRaise
    \/ MainDisplay
    \/ MainBanner
    \/ MainExcept
SpecMain == InitMain /\ [][NextMain]_vars

Init == InitMain
Next == NextMain
Spec == SpecMain

(***************************************************************************)
(* Properties of save_to_supabase                                          *)
(***************************************************************************)
\* The rows of the table that carry the current run's timestamp, in order.
OfThisRun(r) == r[1] = now
RowsOfRun == SelectSeq(table, OfThisRun)

Accepted200or201(answer) == answer.kind = "response" /\ answer.status \in {200, 201}
Answered2xx(answer) ==
    answer.kind = "response" /\ answer.status >= 200 /\ answer.status <= 299

\* Post m of the run is the one that made the function raise.
FailedPost(m) == m = Len(posts) /\ savePc = "raised"

\* C1: when the insert of batch k fails, batches 0..k-1 have each been sent once,
\* in order, were accepted by the store and are still in the table; batch k was
\* sent once and no batch after it was requested.
FailedBatchLeavesEarlierBatches ==
    /\ \A m \in 1..Len(posts) :
          /\ posts[m].start = (m - 1) * batch_size
          /\ posts[m].batch = SubSeq(records, posts[m].start + 1,
                                     Min(posts[m].start + batch_size, Len(records)))
          /\ ~Accepted200or201(posts[m].answer) => FailedPost(m)
    /\ savePc = "raised" =>
          /\ posts # <<>>
          /\ \A m \in 1..(Len(posts) - 1) : posts[m].answer.applied
          /\ i = (Len(posts) - 1) * batch_size
          /\ RowsOfRun = SubSeq(records, 1, i)
                          \o (IF posts[Len(posts)].answer.applied
                              THEN posts[Len(posts)].batch ELSE <<>>)

\* A run that wrote two batches and failed on the third, with batches left to send
\* had it gone on.
FailedThirdBatch ==
    /\ savePc = "raised"
    /\ Len(posts) = 3
    /\ ~posts[3].answer.applied
    /\ Len(RowsOfRun) = 2 * batch_size
    /\ Len(records) > 2 * batch_size

\* C2, as claimed: after a run that completes, the table holds exactly the rows of
\* that run, whatever the Clear step answered.
CompletedRunReplacesTable == savePc = "returned" => table = records

\* C2, amended: after a run that completes and whose Clear request was answered
\* 200 or 204, the table holds exactly the rows of that run.
CompletedRunAfterClearReplacesTable ==
    (/\ savePc = "returned"
     /\ clearStatus.kind = "response"
     /\ clearStatus.status \in {200, 204}) => table = records

\* A second run that cleared the rows of the first and wrote its own.
SecondRunReplacedFirst ==
    /\ savePc = "returned"
    /\ now = 2
    /\ clearStatus.kind = "response" /\ clearStatus.status = 204
    /\ Len(table) > batch_size
    /\ table = records
    /\ Len(posts) >= 2

\* C6, as claimed: a batch is treated as failed exactly when its answer is not a
\* 2xx response.
BatchFailsExactlyOnNon2xx ==
    \A m \in 1..Len(posts) : FailedPost(m) <=> ~Answered2xx(posts[m].answer)

\* C6, amended: a batch is treated as failed exactly when its answer is not a
\* response with status 200 or 201; after every other answer the loop goes on.
BatchFailsExactlyOnNon200or201 ==
    \A m \in 1..Len(posts) :
        /\ FailedPost(m) <=> ~Accepted200or201(posts[m].answer)
        /\ Accepted200or201(posts[m].answer) => i = posts[m].start + batch_size
                                                  \/ i > posts[m].start + batch_size

\* A batch answered 204: the store took it, the function raised.
BatchAnswered204Failed ==
    /\ savePc = "raised"
    /\ posts # <<>>
    /\ posts[Len(posts)].answer = Response(204)
    /\ Len(posts) = 2

RECURSIVE Concat(_)
Concat(ps) == IF ps = <<>> THEN <<>> ELSE Head(ps).batch \o Concat(Tail(ps))

\* C7: a run that completes has sent ceil(N/500) requests, every batch of 500
\* records except possibly the last, which has 1..500, and the batches in the order
\* sent make up the record list.
BatchesPartitionRecords ==
    savePc = "returned" =>
        /\ Len(posts) = (Len(records) + 499) \div 500
        /\ \A m \in 1..Len(posts) :
              /\ m < Len(posts) => Len(posts[m].batch) = 500
              /\ Len(posts[m].batch) >= 1 /\ Len(posts[m].batch) <= 500
        /\ Concat(posts) = records

\* A completed run of three batches, the last of one record.
ThreeBatchesLastShort ==
    /\ savePc = "returned"
    /\ Len(posts) = 3
    /\ Len(posts[3].batch) = 1
    /\ Len(records) = 2 * batch_size + 1

(***************************************************************************)
(* Properties of download_nflverse_data                                    *)
(***************************************************************************)
\* The cache file of the last call, as it was when the call began.
CacheBefore == last.pre[file_name(last.season, last.season_type)]

CacheIsPerPeriod ==
    last.kind = "call" =>
        /\ (~last.response.ok /\ last.ret.kind = "df") =>
              last.ret.of = url(last.season, last.season_type)
        /\ \A s \in Seasons, t \in SeasonTypes :
              <<s, t>> # <<last.season, last.season_type>> =>
                  files[file_name(s, t)] = last.pre[file_name(s, t)]

(***************************************************************************)
(* Properties of filter_and_prepare_data                                   *)
(***************************************************************************)
Normalized == stage = "filtered" /\ df.kind = "df"

\* C5, as claimed: for a raw table whose statistics are numbers or missing,
\* every output row has one of the eight labels and every listed statistic
\* present with a number, and the Scorer never looks up a field the row lacks.
NormalizedRowsAreComplete ==
    (\A m \in 1..Len(raw.rows) :
        \A c \in stat_cols \cap raw.cols : raw.rows[m][c].k # "str") =>
        /\ Normalized =>
              \A j \in 1..Len(df.rows) :
                  /\ isin(df.rows[j]["position_group"], position_groups)
                  /\ \A c \in stat_cols : c \in df.cols /\ df.rows[j][c].k = "num"
        /\ stage = "scored" => ~(df.kind = "raise" /\ df.exc = "KeyError")

\* C5, amended: every output row has one of the eight labels; the output has
\* exactly the listed columns the raw table has; a listed statistic the raw
\* table holds as int64 or float64 has a number in every output row, 0 where
\* the raw value was missing; and a KeyError of the Scorer names a statistic
\* the raw table lacks.
NormalizedRowsKeepAvailableColumns ==
    /\ Normalized =>
          /\ df.cols = needed_cols \cap raw.cols
          /\ \A j \in 1..Len(df.rows) :
                /\ df.rows[j]["position_group"].k = "str"
                /\ df.rows[j]["position_group"].s \in
                      {"QB", "RB", "WR", "TE", "DL", "LB", "DB", "ST"}
                /\ \E m \in 1..Len(raw.rows) :
                      \A c \in df.cols :
                          df.rows[j][c] =
                              IF raw.dtype[c] \in {"int64", "float64"}
                                 /\ raw.rows[m][c].k = "nan"
                              THEN Num(0) ELSE raw.rows[m][c]
                /\ \A c \in stat_cols \cap df.cols :
                      raw.dtype[c] \in {"int64", "float64"} => df.rows[j][c].k = "num"
    /\ (stage = "scored" /\ df.kind = "raise" /\ df.exc = "KeyError") =>
          df.key \in stat_cols \ raw.cols

\* An output with a row, where a missing value became 0 and a listed statistic
\* of the raw table's missing column stayed missing.
FilledAndDropped ==
    /\ Normalized
    /\ stat_cols \ df.cols # {}
    /\ Len(raw.rows) > Len(df.rows)
    /\ \E j \in 1..Len(df.rows), m \in 1..Len(raw.rows) :
          \E c \in stat_cols \cap df.cols :
              raw.rows[m][c] = NaN /\ df.rows[j][c] = Num(0)
                 /\ df.rows[j]["position_group"] = raw.rows[m]["position_group"]

(***************************************************************************)
(* Properties of calculate_fantasy_points                                  *)
(***************************************************************************)
Stat(c) == row[c].n

\* The offensive formula, in hundredths of a point.
OffensiveFormula ==
      4 * Stat("passing_yards") + 400 * Stat("passing_tds")
    - 200 * Stat("passing_interceptions") - 50 * Stat("sacks_suffered")
    - 200 * Stat("sack_fumbles_lost") + 200 * Stat("passing_2pt_conversions")
    + 10 * Stat("rushing_yards") + 600 * Stat("rushing_tds")
    - 200 * Stat("rushing_fumbles_lost") + 200 * Stat("rushing_2pt_conversions")
    + 50 * Stat("receptions") + 10 * Stat("receiving_yards")
    + 600 * Stat("receiving_tds") - 200 * Stat("receiving_fumbles_lost")
    + 200 * Stat("receiving_2pt_conversions") + 1500 * Stat("special_teams_tds")
    + 5 * Stat("punt_return_yards") + 5 * Stat("kickoff_return_yards")

\* The defensive formula, in hundredths of a point.
DefensiveFormula ==
      100 * Stat("def_tackles_solo") + 50 * Stat("def_tackle_assists")
    + 200 * Stat("def_tackles_for_loss") + 500 * Stat("def_fumbles_forced")
    + 400 * Stat("def_sacks") + 700 * Stat("def_interceptions")
    + 300 * Stat("def_pass_defended") + 600 * Stat("def_tds")
    + 200 * Stat("def_safeties") + 300 * Stat("fumble_recovery_opp")
    + 600 * Stat("fumble_recovery_tds")

\* C9: the score is the offensive formula for QB, RB, WR, TE, the defensive formula
\* for DL, LB, DB, and 0 for every other label, ST included; a record with all
\* statistics zero scores 0; the two worked examples score 16 and 15.
ScoreFollowsLabel ==
    points # NotScored =>
        LET label == row["position_group"] IN
        /\ (label.k = "str" /\ label.s \in {"QB", "RB", "WR", "TE"}) =>
              points = Num(OffensiveFormula)
        /\ (label.k = "str" /\ label.s \in {"DL", "LB", "DB"}) =>
              points = Num(DefensiveFormula)
        /\ ~(label.k = "str" /\ label.s \in {"QB", "RB", "WR", "TE", "DL", "LB", "DB"}) =>
              points = Num(0)
        /\ (\A c \in stat_cols : row[c] = Num(0)) => points = Num(0)
        /\ row = ExampleOff => points = Num(1600)
        /\ row = ExampleDef => points = Num(1500)

\* A special-teams record with a special-teams touchdown, scored 0.
SpecialTeamsScoresZero ==
    /\ points = Num(0)
    /\ row["position_group"] = Str("ST")
    /\ row["special_teams_tds"].n > 0

(***************************************************************************)
(* Properties of main                                                      *)
(***************************************************************************)
Banner == "Process completed successfully!"
BannerPrinted == \E j \in 1..Len(printed) : printed[j] = Banner

\* C8: Clear and the report are never fatal: the function raises only on a batch
\* that was not answered 200 or 201, the report always comes back, and a run that
\* has ended is successful exactly when the loader, the normalizer, the scorer and
\* every insert batch succeeded.
ClearAndReportNeverFatal ==
    /\ savePc = "raised" =>
          /\ posts # <<>>
          /\ ~Accepted200or201(posts[Len(posts)].answer)
    /\ (savePc \in {"insert", "returned", "raised"} /\ pc # "idle") =>
          clearStatus # NoAnswer
    /\ pc \in {"banner", "returned"} =>
          /\ savePc = "returned"
          /\ Len(printed) >= 1
          /\ printed[1] \in {"Top players", "No data found", "Error fetching top players"}
    /\ pc \in {"returned", "raised"} =>
          ((pc = "returned" /\ raised = NoError /\ BannerPrinted) <=>
              /\ last.kind = "call" /\ last.ret.kind = "df"
              /\ stage = "scored" /\ df.kind = "df"
              /\ savePc = "returned"
              /\ \A m \in 1..Len(posts) : Accepted200or201(posts[m].answer))

\* A run that ended successfully although Clear was answered 404 and the report
\* query failed.
SuccessDespiteClearAndReport ==
    /\ pc = "returned"
    /\ BannerPrinted
    /\ clearStatus = Response(404)
    /\ printed[1] = "Error fetching top players"
    /\ table # <<>>

\* C10: when a stage fails, no later stage runs, the success banner is not
\* printed, and the error that leaves main is the error the stage raised.
FailureLeavesMainUnchanged ==
    pc = "raised" =>
        /\ ~BannerPrinted
        /\ last.ret.kind = "raise" => (stage = "idle" /\ savePc = "idle")
        /\ (stage = "filtered" /\ df.kind = "raise") => savePc = "idle"
        /\ (stage = "scored" /\ df.kind = "raise") => savePc = "idle"
        /\ savePc = "raised" => printed = <<"Error occurred">>
        /\ raised = stageErr
====
